---- MODULE Spec2Model ----
(***************************************************************************)
(* Large-CSV-Processor: the upload -> process -> retrieve pipeline.        *)
(*   app/app.py    upload_file, get_file_result  (the request handlers)    *)
(*   app/utils.py  handle_file_upload, process_csv, get_result             *)
(*   app/db.py     clear_db, insert_record, fetch_sorted_data              *)
(* The uploads folder is modelled by input_file / output_file, the single  *)
(* SQLite table `plays` by the bag plays_table, and every background       *)
(* thread started by handle_file_upload by its position pc[t].  A thread   *)
(* step is one access to shared state (one committed statement of db.py,   *)
(* or the creation of the output file).                                    *)
(***************************************************************************)
EXTENDS Integers, Sequences, FiniteSets, Bags, TLC

(* ---------------------------- bounds ----------------------------------- *)
\* uploads accepted in one run of the concurrent system
MaxTasks == 2
\* data rows of an uploaded file in the concurrent system
MaxRows == 1
\* data rows of an uploaded file when one task runs on its own
MaxRowsAlone == 3
\* data rows of the first upload when uploads are processed one after the other
MaxRowsFirst == 2
\* raw rows of the staging table when only the paging loop runs
MaxStore == 3
\* page size of the paging loop: 500 at utils.py:34, scaled down so that
\* the bounded inputs reach and cross page boundaries
limit == 1
\* largest value of an SQLite INTEGER: 2^63 - 1 for the column of db.py:17
\* and for SUM(plays), scaled down so that sums of the bounded inputs cross it
MaxInteger == 3

Tasks == 1..MaxTasks

(* ---------------------------- text values ------------------------------ *)
\* the values of generate_large_csv.py
Songs == {"Song A", "Song B"}
Dates == {"2020-01-01", "2020-01-02"}
PlayTexts == {"1", "2"}

\* the texts of the model in ordinal (code point) order, which is the order
\* of SQLite's BINARY collation and of Python's str comparison
Collation == <<"2020-01-01", "2020-01-02", "Song A", "Song B">>
Rank(s) == CHOOSE i \in 1..Len(Collation) : Collation[i] = s
TextLess(a, b) == Rank(a) < Rank(b)

\* str(n) of a non-negative integer, as csv.writer formats total_plays
DigitChar(d) == <<"0", "1", "2", "3", "4", "5", "6", "7", "8", "9">>[d + 1]
RECURSIVE ToText(_)
ToText(n) == IF n < 10 THEN DigitChar(n) ELSE ToText(n \div 10) \o DigitChar(n % 10)

\* int(s): defined on the decimal texts, raises ValueError on any other text
ParseRange == 0..99
IsIntText(s) == \E n \in ParseRange : ToText(n) = s
int(s) == CHOOSE n \in ParseRange : ToText(n) = s

(* ---------------------------- files ------------------------------------ *)
InputHeader == <<"Song", "Date", "Number of Plays">>
OutputHeader == <<"Song", "Date", "Total Number of Plays for Date">>

WellFormedRows == {<<s, d, p>> : s \in Songs, d \in Dates, p \in PlayTexts}
\* a row with fewer than 3 fields, and a row whose plays field is no integer
MalformedRows == {<<"Song A", "2020-01-01">>, <<"Song A", "2020-01-01", "abc">>}
CsvRows == WellFormedRows \cup MalformedRows

SeqsUpTo(S, n) == UNION {[1..k -> S] : k \in 0..n}

\* an uploaded file: zero bytes, or a header line followed by data rows
Uploads(n) == {<<>>} \cup {<<InputHeader>> \o rows : rows \in SeqsUpTo(CsvRows, n)}

Absent == [exists |-> FALSE, rows |-> <<>>]
File(rows) == [exists |-> TRUE, rows |-> rows]

DataRows(f) == IF Len(f.rows) = 0 THEN <<>> ELSE Tail(f.rows)
WellFormed(row) == Len(row) >= 3 /\ IsIntText(row[3])

(* ---------------------------- db.py ------------------------------------ *)
KeyOf(r) == <<r[1], r[2]>>
KeyLess(a, b) == TextLess(a[1], b[1]) \/ (a[1] = b[1] /\ TextLess(a[2], b[2]))

\* SUM(DISTINCT plays): equal rows of a group counted once
RECURSIVE SumOverDistinct(_, _)
SumOverDistinct(S, table) ==
  IF S = {} THEN 0
  ELSE LET r == CHOOSE x \in S : TRUE
       IN r[3] + SumOverDistinct(S \ {r}, table)

RECURSIVE SumOver(_, _)
SumOver(S, table) ==
  IF S = {} THEN 0
  ELSE LET r == CHOOSE x \in S : TRUE
       IN r[3] * CopiesIn(r, table) + SumOver(S \ {r}, table)

\* SUM(plays) of the group (song, date)
total_plays(table, k) == SumOver({r \in BagToSet(table) : KeyOf(r) = k}, table)

RECURSIVE OrderBy(_)
OrderBy(K) ==
  IF K = {} THEN <<>>
  ELSE LET m == CHOOSE a \in K : \A b \in K \ {a} : KeyLess(a, b)
       IN <<m>> \o OrderBy(K \ {m})

\* SELECT song, date, SUM(plays) FROM plays GROUP BY song, date ORDER BY song, date
GroupedSorted(table) ==
  LET keys == OrderBy({KeyOf(r) : r \in BagToSet(table)})
  IN [i \in 1..Len(keys) |-> <<keys[i][1], keys[i][2], total_plays(table, keys[i])>>]

Min(a, b) == IF a < b THEN a ELSE b

\* a page of lim + 1 rows
LimitOffsetOneMore(rows, lim, off) ==
  IF off >= Len(rows) THEN <<>>
  ELSE SubSeq(rows, off + 1, IF lim < 0 THEN Len(rows) ELSE Min(off + lim + 1, Len(rows)))

\* LIMIT lim OFFSET off (a negative LIMIT is no limit in SQLite)
LimitOffset(rows, lim, off) ==
  IF off >= Len(rows) THEN <<>>
  ELSE SubSeq(rows, off + 1, IF lim < 0 THEN Len(rows) ELSE Min(off + lim, Len(rows)))

fetch_sorted_data(table, lim, off) == LimitOffset(GroupedSorted(table), lim, off)

\* the query raises "integer overflow" when the SUM of a group it computes,
\* a group of the page or one that OFFSET skips, is beyond MaxInteger
SumOverflows(table, lim, off) ==
  \E g \in {GroupedSorted(table)} :
    \E i \in 1..(IF lim < 0 THEN Len(g) ELSE Min(off + lim, Len(g))) : g[i][3] > MaxInteger

\* the lines csv_writer.writerow adds for one page
WriteRows(page) == [i \in 1..Len(page) |-> <<page[i][1], page[i][2], ToText(page[i][3])>>]

(* ---------------------------- state ------------------------------------ *)
VARIABLES
  issued,        \* number of task ids generated by uuid4()
  input_file,    \* uploads/{task_id}_input.csv
  output_file,   \* uploads/{task_id}_output.csv
  plays_table,   \* the rows of table plays in uploads/csv_data.db
  pc,            \* position of the thread running process_csv for the task
  row_idx,       \* data rows the thread has read from its input file
  offset,        \* the paging loop's offset
  poll_task,     \* task whose get_result returned None, before the check of app.py:58
  poll_resp,     \* the response get_file_result returns in this step, if it returns one
  upload,        \* the call of handle_file_upload in progress and its position
  upload_resp    \* the response upload_file returns in this step, if it returns one

vars == <<issued, input_file, output_file, plays_table, pc, row_idx, offset,
          poll_task, poll_resp, upload, upload_resp>>

\* a response is an event of the step that returns it: every other step
\* leaves none behind
NoPoll == [task |-> 0, code |-> 0, body |-> <<>>]
NoUpload == [code |-> 0, task_id |-> 0]
Idle == [step |-> "idle", task |-> 0, data |-> <<>>]
NoResponse == poll_resp' = NoPoll /\ upload_resp' = NoUpload

Init ==
  /\ issued = 0
  /\ input_file = [t \in Tasks |-> Absent]
  /\ output_file = [t \in Tasks |-> Absent]
  /\ plays_table = EmptyBag
  /\ pc = [t \in Tasks |-> "none"]
  /\ row_idx = [t \in Tasks |-> 0]
  /\ offset = [t \in Tasks |-> 0]
  /\ poll_task = 0
  /\ poll_resp = NoPoll
  /\ upload = Idle
  /\ upload_resp = NoUpload

(* ---------------------------- app.py: upload_file ---------------------- *)
\* app.py:29-35: no file part, or an empty filename
\* an upload_file that takes a task id before it looks at the request
UploadRejectedTakesId ==
  /\ issued < MaxTasks
  /\ issued' = issued + 1
  /\ upload_resp' = [code |-> 400, task_id |-> 0]
  /\ poll_resp' = NoPoll
  /\ UNCHANGED <<input_file, output_file, plays_table, pc, row_idx, offset,
                 poll_task, upload>>

UploadRejected ==
  /\ upload_resp' = [code |-> 400, task_id |-> 0]
  /\ poll_resp' = NoPoll
  /\ UNCHANGED <<issued, input_file, output_file, plays_table, pc, row_idx, offset,
                 poll_task, upload>>

\* utils.py:52-58: the task id is generated and open(..., 'wb') creates the
\* input file, still empty
UploadOpen(data) ==
  /\ upload.step = "idle"
  /\ issued < MaxTasks
  /\ LET t == issued + 1 IN
       /\ issued' = t
       /\ input_file' = [input_file EXCEPT ![t] = File(<<>>)]
       /\ upload' = [step |-> "opened", task |-> t, data |-> data]
  /\ NoResponse
  /\ UNCHANGED <<output_file, plays_table, pc, row_idx, offset, poll_task>>

\* utils.py:59: the uploaded bytes are written and the file closed
UploadWrite ==
  /\ upload.step = "opened"
  /\ input_file' = [input_file EXCEPT ![upload.task] = File(upload.data)]
  /\ upload' = [upload EXCEPT !.step = "saved"]
  /\ NoResponse
  /\ UNCHANGED <<issued, output_file, plays_table, pc, row_idx, offset, poll_task>>

\* a handle_file_upload that starts the thread before the bytes are written
UploadStartBeforeWrite ==
  /\ upload.step = "opened"
  /\ pc' = [pc EXCEPT ![upload.task] = "start"]
  /\ upload' = [upload EXCEPT !.step = "started"]
  /\ NoResponse
  /\ UNCHANGED <<issued, input_file, output_file, plays_table, row_idx, offset, poll_task>>

\* utils.py:62-63: the thread running process_csv is started
UploadStart ==
  /\ upload.step = "saved"
  /\ pc' = [pc EXCEPT ![upload.task] = "start"]
  /\ upload' = [upload EXCEPT !.step = "started"]
  /\ NoResponse
  /\ UNCHANGED <<issued, input_file, output_file, plays_table, row_idx, offset, poll_task>>

\* utils.py:65 then app.py:41-42: the task id is returned with 202
UploadAccepted ==
  /\ upload.step = "started"
  /\ upload_resp' = [code |-> 202, task_id |-> upload.task]
  /\ upload' = Idle
  /\ poll_resp' = NoPoll
  /\ UNCHANGED <<issued, input_file, output_file, plays_table, pc, row_idx, offset,
                 poll_task>>

\* utils.py:58-59 raises (open fails: no file; read or write fails: an empty
\* file is left), utils.py:66-68 returns None, app.py:42 answers 202
UploadFailed(opened) ==
  /\ upload.step = "idle"
  /\ issued < MaxTasks
  /\ LET t == issued + 1 IN
       /\ issued' = t
       /\ input_file' = [input_file EXCEPT ![t] = IF opened THEN File(<<>>) ELSE Absent]
       /\ upload_resp' = [code |-> 202, task_id |-> 0]
  /\ poll_resp' = NoPoll
  /\ UNCHANGED <<output_file, plays_table, pc, row_idx, offset, poll_task, upload>>

(* ---------------------------- utils.py: process_csv -------------------- *)
\* utils.py:16-22: init_db, clear_db, then the header is read; next() on a
\* file of zero bytes raises StopIteration, caught at utils.py:45
\* a process_csv that does not empty the table before ingesting
ClearDbKeepsRows(t) ==
  /\ pc[t] = "start"
  /\ plays_table' = plays_table
  /\ pc' = [pc EXCEPT ![t] = IF Len(input_file[t].rows) = 0 THEN "failed" ELSE "ingest"]
  /\ NoResponse
  /\ UNCHANGED <<issued, input_file, output_file, row_idx, offset, poll_task, upload>>

ClearDb(t) ==
  /\ pc[t] = "start"
  /\ plays_table' = EmptyBag
  /\ pc' = [pc EXCEPT ![t] = IF Len(input_file[t].rows) = 0 THEN "failed" ELSE "ingest"]
  /\ NoResponse
  /\ UNCHANGED <<issued, input_file, output_file, row_idx, offset, poll_task, upload>>

\* an ingestion loop that skips a row it cannot parse
InsertRowSkips(t) ==
  /\ pc[t] = "ingest"
  /\ row_idx[t] < Len(DataRows(input_file[t]))
  /\ LET row == DataRows(input_file[t])[row_idx[t] + 1] IN
       /\ plays_table' = IF WellFormed(row)
                         THEN plays_table (+) SetToBag({<<row[1], row[2], int(row[3])>>})
                         ELSE plays_table
       /\ row_idx' = [row_idx EXCEPT ![t] = @ + 1]
       /\ pc' = pc
  /\ NoResponse
  /\ UNCHANGED <<issued, input_file, output_file, offset, poll_task, upload>>

\* utils.py:23-25: one iteration of the ingestion loop; it raises on a row
\* that cannot be parsed and on plays that are no SQLite INTEGER
InsertRow(t) ==
  /\ pc[t] = "ingest"
  /\ row_idx[t] < Len(DataRows(input_file[t]))
  /\ LET row == DataRows(input_file[t])[row_idx[t] + 1] IN
       IF WellFormed(row) /\ int(row[3]) <= MaxInteger
       THEN /\ plays_table' = plays_table (+) SetToBag({<<row[1], row[2], int(row[3])>>})
            /\ row_idx' = [row_idx EXCEPT ![t] = @ + 1]
            /\ pc' = pc
       ELSE /\ pc' = [pc EXCEPT ![t] = "failed"]
            /\ UNCHANGED <<plays_table, row_idx>>
  /\ NoResponse
  /\ UNCHANGED <<issued, input_file, output_file, offset, poll_task, upload>>

\* db.py:38-41 raises on a parsed row (the database is locked, the disk is full)
InsertFails(t) ==
  /\ pc[t] = "ingest"
  /\ row_idx[t] < Len(DataRows(input_file[t]))
  /\ WellFormed(DataRows(input_file[t])[row_idx[t] + 1])
  /\ pc' = [pc EXCEPT ![t] = "failed"]
  /\ NoResponse
  /\ UNCHANGED <<issued, input_file, output_file, plays_table, row_idx, offset, poll_task, upload>>

\* utils.py:29-34: the output file is created and the header written
OpenOutput(t) ==
  /\ pc[t] = "ingest"
  /\ row_idx[t] = Len(DataRows(input_file[t]))
  /\ output_file' = [output_file EXCEPT ![t] = File(<<OutputHeader>>)]
  /\ offset' = [offset EXCEPT ![t] = 0]
  /\ pc' = [pc EXCEPT ![t] = "paging"]
  /\ NoResponse
  /\ UNCHANGED <<issued, input_file, plays_table, row_idx, poll_task, upload>>

\* utils.py:36-44: one iteration of the paging loop; an empty page ends it
\* and the file is closed, and so does a query that raises
FetchPage(t) ==
  /\ pc[t] = "paging"
  /\ IF SumOverflows(plays_table, limit, offset[t])
     THEN /\ pc' = [pc EXCEPT ![t] = "failed"]
          /\ UNCHANGED <<output_file, offset>>
     ELSE \E sorted_data \in {fetch_sorted_data(plays_table, limit, offset[t])} :
       IF sorted_data = <<>>
       THEN /\ pc' = [pc EXCEPT ![t] = "done"]
            /\ UNCHANGED <<output_file, offset>>
       ELSE /\ output_file' = [output_file EXCEPT
                                 ![t] = File(@.rows \o WriteRows(sorted_data))]
            /\ offset' = [offset EXCEPT ![t] = @ + limit]
            /\ pc' = pc
  /\ NoResponse
  /\ UNCHANGED <<issued, input_file, plays_table, row_idx, poll_task, upload>>

\* db.py:50-57 raises inside the paging loop; the with block closes the file
FetchFails(t) ==
  /\ pc[t] = "paging"
  /\ pc' = [pc EXCEPT ![t] = "failed"]
  /\ NoResponse
  /\ UNCHANGED <<issued, input_file, output_file, plays_table, row_idx, offset, poll_task, upload>>

(* ---------------------------- app.py: get_file_result ------------------ *)
\* app.py:51-53 with utils.py:73-77: the output file is served when it exists
GetResult(t) ==
  /\ poll_task = 0
  /\ IF output_file[t].exists
     THEN /\ poll_resp' = [task |-> t, code |-> 200, body |-> output_file[t].rows]
          /\ poll_task' = 0
     ELSE /\ poll_resp' = NoPoll
          /\ poll_task' = t
  /\ upload_resp' = NoUpload
  /\ UNCHANGED <<issued, input_file, output_file, plays_table, pc, row_idx, offset, upload>>

\* a get_file_result that answers Processing whenever there is no output file
CheckProcessingOutputOnly ==
  /\ poll_task # 0
  /\ poll_resp' = [task |-> poll_task,
                   code |-> IF ~output_file[poll_task].exists THEN 202 ELSE 404,
                   body |-> <<>>]
  /\ poll_task' = 0
  /\ upload_resp' = NoUpload
  /\ UNCHANGED <<issued, input_file, output_file, plays_table, pc, row_idx, offset, upload>>

\* app.py:56-62: the second look at the two files
CheckProcessing ==
  /\ poll_task # 0
  /\ poll_resp' = [task |-> poll_task,
                   code |-> IF input_file[poll_task].exists /\ ~output_file[poll_task].exists
                            THEN 202 ELSE 404,
                   body |-> <<>>]
  /\ poll_task' = 0
  /\ upload_resp' = NoUpload
  /\ UNCHANGED <<issued, input_file, output_file, plays_table, pc, row_idx, offset, upload>>

(* ---------------------------- specifications --------------------------- *)
Thread(t) ==
  \/ ClearDb(t)
  \/ InsertRow(t)
  \/ InsertFails(t)
  \/ OpenOutput(t)
  \/ FetchPage(t)
  \/ FetchFails(t)

\* the service: uploads, their threads and polls, in any interleaving
Next ==
  \/ UploadRejected
  \/ upload.step = "idle" /\ issued < MaxTasks /\ \E data \in Uploads(MaxRows) : UploadOpen(data)
  \/ UploadWrite
  \/ UploadStart
  \/ UploadAccepted
  \/ \E opened \in BOOLEAN : UploadFailed(opened)
  \/ \E t \in Tasks : Thread(t)
  \/ \E t \in Tasks : GetResult(t)
  \/ CheckProcessing

Spec == Init /\ [][Next]_vars

\* one accepted upload, processed with no other thread, and the polls of it
NoThreadYet == \A t \in Tasks : pc[t] = "none"

NextAlone ==
  \/ NoThreadYet /\ upload.step = "idle" /\ issued < MaxTasks
       /\ \E data \in Uploads(MaxRowsAlone) : UploadOpen(data)
  \/ UploadWrite
  \/ UploadStart
  \/ UploadAccepted
  \/ \E t \in Tasks : Thread(t)
  \/ \E t \in Tasks : GetResult(t)
  \/ CheckProcessing

SpecAlone == Init /\ [][NextAlone]_vars

\* the upload endpoint: requests without a file at any moment, and one
\* accepted upload with its thread
NextUploads ==
  \/ UploadRejected
  \/ NoThreadYet /\ upload.step = "idle" /\ issued < MaxTasks
       /\ \E data \in Uploads(MaxRows) : UploadOpen(data)
  \/ UploadWrite
  \/ UploadStart
  \/ UploadAccepted
  \/ \E t \in Tasks : Thread(t)

SpecUploads == Init /\ [][NextUploads]_vars

\* uploads processed one after the other: the next upload arrives when the
\* thread of the one before has ended, completed or failed, and finds in the
\* table the rows that thread left there
NoThreadRunning == \A t \in Tasks : pc[t] \in {"none", "done", "failed"}

NextSerial ==
  \/ NoThreadRunning /\ upload.step = "idle" /\ issued < MaxTasks
       /\ \E data \in Uploads(IF issued = 0 THEN MaxRowsFirst ELSE MaxRows) : UploadOpen(data)
  \/ UploadWrite
  \/ UploadStart
  \/ UploadAccepted
  \/ \E t \in Tasks : Thread(t)

SpecSerial == Init /\ [][NextSerial]_vars

\* threads that are scheduled fairly on a store that answers every call:
\* uploads in any interleaving, and for each thread the steps of process_csv
\* that raise only on what the rows hold (a row that cannot be parsed, an
\* integer beyond MaxInteger)
ThreadRuns(t) ==
  \/ ClearDb(t)
  \/ InsertRow(t)
  \/ OpenOutput(t)
  \/ FetchPage(t)

NextLive ==
  \/ upload.step = "idle" /\ issued < MaxTasks /\ \E data \in Uploads(MaxRows) : UploadOpen(data)
  \/ UploadWrite
  \/ UploadStart
  \/ UploadAccepted
  \/ \E t \in Tasks : ThreadRuns(t)

SpecLive == Init /\ [][NextLive]_vars /\ \A t \in Tasks : WF_vars(ThreadRuns(t))

\* one accepted upload, processed with no other thread on a store that
\* answers every call
NextAloneRuns ==
  \/ NoThreadYet /\ upload.step = "idle" /\ issued < MaxTasks
       /\ \E data \in Uploads(MaxRowsAlone) : UploadOpen(data)
  \/ UploadWrite
  \/ UploadStart
  \/ UploadAccepted
  \/ \E t \in Tasks : ThreadRuns(t)

SpecAloneRuns == Init /\ [][NextAloneRuns]_vars

\* the paging loop on its own: a thread that has just ingested its rows and
\* created its output file, with no other thread to change the table
Parsed(rows) == [i \in 1..Len(rows) |-> <<rows[i][1], rows[i][2], int(rows[i][3])>>]

RECURSIVE BagOfSeq(_)
BagOfSeq(q) == IF q = <<>> THEN EmptyBag ELSE SetToBag({Head(q)}) (+) BagOfSeq(Tail(q))

InitPage ==
  \E rows \in SeqsUpTo(WellFormedRows, MaxStore) :
    /\ issued = 1
    /\ input_file = [t \in Tasks |-> IF t = 1 THEN File(<<InputHeader>> \o rows) ELSE Absent]
    /\ output_file = [t \in Tasks |-> IF t = 1 THEN File(<<OutputHeader>>) ELSE Absent]
    /\ plays_table = BagOfSeq(Parsed(rows))
    /\ pc = [t \in Tasks |-> IF t = 1 THEN "paging" ELSE "none"]
    /\ row_idx = [t \in Tasks |-> IF t = 1 THEN Len(rows) ELSE 0]
    /\ offset = [t \in Tasks |-> 0]
    /\ poll_task = 0
    /\ poll_resp = NoPoll
    /\ upload = Idle
    /\ upload_resp = NoUpload

NextPage == \E t \in Tasks : FetchPage(t)

SpecPage == InitPage /\ [][NextPage]_vars

(* ---------------------------- properties ------------------------------ *)
\* the group-by-sum of a file's data rows, stated on the rows themselves
RECURSIVE SumPlays(_, _)
SumPlays(rows, k) ==
  IF rows = <<>> THEN 0
  ELSE (IF KeyOf(Head(rows)) = k THEN int(Head(rows)[3]) ELSE 0) + SumPlays(Tail(rows), k)

RECURSIVE SumTotals(_)
SumTotals(out) == IF out = <<>> THEN 0 ELSE int(Head(out)[3]) + SumTotals(Tail(out))

Occurrences(out, k) == Cardinality({j \in 1..Len(out) : KeyOf(out[j]) = k})

OutputIsGroupBySum(t) ==
  LET inp == DataRows(input_file[t])
      out == DataRows(output_file[t])
  IN /\ output_file[t].exists
     /\ Len(output_file[t].rows) >= 1
     /\ output_file[t].rows[1] = OutputHeader
     /\ \A i \in 1..Len(inp) : Occurrences(out, KeyOf(inp[i])) = 1
     /\ \A j \in 1..Len(out) : \E i \in 1..Len(inp) : KeyOf(inp[i]) = KeyOf(out[j])
     /\ \A j \in 1..Len(out) : out[j][3] = ToText(SumPlays(inp, KeyOf(out[j])))

StrictlyAscending(out) ==
  \A j \in 1..(Len(out) - 1) : KeyLess(KeyOf(out[j]), KeyOf(out[j + 1]))

NoDuplicateKey(out) ==
  \A i, j \in 1..Len(out) : KeyOf(out[i]) = KeyOf(out[j]) => i = j

Running(t) == pc[t] \in {"start", "ingest", "paging"}

HasMalformedRow(f) == \E i \in 1..Len(DataRows(f)) : ~WellFormed(DataRows(f)[i])

\* C1: a poll answers Complete (200) only for a task whose thread has
\* finished process_csv, and then serves the whole output file; a poll of a
\* task whose thread is still ingesting or paging answers Processing (202).
C1_CompleteMeansFinalized ==
  \A t \in Tasks :
    poll_resp.task = t =>
      /\ poll_resp.code = 200 => pc[t] = "done" /\ poll_resp.body = output_file[t].rows
      /\ Running(t) => poll_resp.code = 202

\* C2: in every interleaving of the threads, the output of a task that
\* completes is the group-by-sum of that task's own input rows.
C2_NoCrossTaskContamination ==
  \A t \in Tasks : pc[t] = "done" => OutputIsGroupBySum(t)

C4_FinalizedOutputStrictlyAscending ==
  \A t \in Tasks :
    pc[t] = "done" =>
      /\ StrictlyAscending(DataRows(output_file[t]))
      /\ NoDuplicateKey(DataRows(output_file[t]))

\* C5: a task whose thread failed (malformed row, failed insert, failed
\* fetch) has no output file, and a poll of it answers Processing (202).
C5_FailureLeavesNoOutput ==
  \A t \in Tasks :
    pc[t] = "failed" =>
      /\ ~output_file[t].exists
      /\ poll_resp.task = t => poll_resp.code = 202

\* C6: a poll answers NotFound (404) only when neither file of the task
\* exists; never for a task a successful upload has started.
C6_NotFoundOnlyWithoutArtifacts ==
  \A t \in Tasks :
    poll_resp.task = t /\ poll_resp.code = 404 =>
      /\ ~input_file[t].exists
      /\ ~output_file[t].exists
      /\ pc[t] = "none"

\* C7: a task whose input holds a row with fewer than 3 fields or a
\* non-integer plays field never completes: it has no output file, and
\* every poll of it answers Processing (202).
C7_MalformedNeverCompletes ==
  \A t \in Tasks :
    input_file[t].exists /\ HasMalformedRow(input_file[t]) =>
      /\ pc[t] # "done"
      /\ ~output_file[t].exists
      /\ poll_resp.task = t => poll_resp.code = 202

\* C7 witness: the thread has failed on a malformed row that follows rows
\* it has inserted, and a poll of the task has answered Processing
C7_Witness ==
  \E t \in Tasks :
    /\ HasMalformedRow(input_file[t])
    /\ pc[t] = "failed"
    /\ row_idx[t] > 0
    /\ poll_resp.task = t
    /\ poll_resp.code = 202

\* C8: an upload whose input could not be saved is answered with an error:
\* a 202 response carries the id of a task whose input file is saved, and a
\* thread runs only for a saved input.
C8_FailedSaveIsAnError ==
  /\ upload_resp.code = 202 =>
       /\ upload_resp.task_id \in Tasks
       /\ input_file[upload_resp.task_id].exists
  /\ \A t \in Tasks : pc[t] # "none" => input_file[t].exists

\* C9: with the table unchanged, the pages the loop has written up to the
\* first empty page are the whole grouped, sorted result, and a page is
\* empty exactly when its offset is at or beyond the number of groups.
C9_PaginationLaw ==
  /\ \A t \in Tasks :
       pc[t] = "done" =>
         DataRows(output_file[t]) = WriteRows(fetch_sorted_data(plays_table, -1, 0))
  /\ \A off \in 0..(MaxStore + 1) :
       (fetch_sorted_data(plays_table, limit, off) = <<>>)
         <=> off >= Cardinality({KeyOf(r) : r \in BagToSet(plays_table)})

\* C9 witness: the loop has ended after more than one non-empty page
C9_Witness ==
  \E t \in Tasks :
    /\ pc[t] = "done"
    /\ Len(DataRows(output_file[t])) > limit

\* C10: the output of a completed task whose input has no data row is the
\* header row alone.
C10_EmptyInputHeaderOnly ==
  \A t \in Tasks :
    pc[t] = "done" /\ DataRows(input_file[t]) = <<>> =>
      output_file[t].rows = <<OutputHeader>>

\* C16: handle_file_upload returns a task id only after the input file is
\* completely written, starts the thread only after that write, and its
\* return never waits for the thread: a thread exists only for a task whose
\* input file holds the uploaded bytes, the handler about to return has
\* written all of them and can return whatever step the thread is at, and a
\* returned task id names an existing input file and a started thread.
C16_ReturnsAfterWriteWithoutWaiting ==
  /\ \A t \in Tasks :
       /\ pc[t] # "none" => input_file[t].exists
       /\ upload.task = t /\ pc[t] # "none" =>
            upload.step = "started" /\ input_file[t] = File(upload.data)
       /\ upload_resp.code = 202 /\ upload_resp.task_id = t =>
            input_file[t].exists /\ pc[t] # "none"
  /\ upload.step = "started" =>
       /\ input_file[upload.task] = File(upload.data)
       /\ ENABLED UploadAccepted

\* a task id is returned while the thread is in the middle of ingestion or
\* of paging, and one is returned when the thread has not run yet
C16_Witness ==
  \E t \in Tasks :
    /\ upload_resp.code = 202 /\ upload_resp.task_id = t
    /\ Len(DataRows(input_file[t])) > 0
    /\ \/ pc[t] = "ingest" /\ row_idx[t] > 0
       \/ pc[t] = "paging" /\ offset[t] > 0

\* C11: Complete is terminal: once a poll has answered 200 for a task, every
\* later poll of it answers 200 with the same contents.  get_result serves
\* whatever the output file holds, so this is the statement that the file a
\* poll has served as complete stays what was served, whatever step any
\* upload or thread takes next.
C11_CompleteIsTerminal ==
  [][\A t \in Tasks :
       poll_resp.task = t /\ poll_resp.code = 200 =>
         output_file'[t] = File(poll_resp.body)]_vars

\* C12: an upload with no file part or an empty filename is answered 400
\* and changes nothing: the step that answers 400 carries no task id and
\* leaves the task ids, the input and output files, the threads, the upload
\* in progress and the table as they were.
C12_RejectedUploadChangesNothing ==
  [][upload_resp'.code = 400 =>
       /\ upload_resp'.task_id = 0
       /\ UNCHANGED <<issued, input_file, output_file, plays_table, pc, row_idx,
                      offset, upload>>]_vars

\* a request is rejected while a thread is paging over a table that holds rows
C12_Witness ==
  /\ upload_resp.code = 400
  /\ \E t \in Tasks : pc[t] = "paging" /\ plays_table # EmptyBag /\ output_file[t].exists

\* C15: when no two threads overlap, the output of a task that completes is
\* the group-by-sum of its own input rows, whatever rows the tasks before it
\* left in the table, a task that failed part-way through ingestion included;
\* so two tasks that complete on the same input have the same output.
C15_SerialOutputIsGroupBySum ==
  \A t \in Tasks :
    pc[t] = "done" =>
      /\ OutputIsGroupBySum(t)
      /\ \A u \in Tasks :
           pc[u] = "done" /\ input_file[u] = input_file[t] => output_file[u] = output_file[t]

\* the first task failed after inserting a row and before the end of its
\* input, and the second, whose row has the key of that row, has completed
C15_Witness ==
  /\ pc[1] = "failed"
  /\ 0 < row_idx[1] /\ row_idx[1] < Len(DataRows(input_file[1]))
  /\ pc[2] = "done"
  /\ Len(DataRows(input_file[2])) > 0
  /\ DataRows(input_file[2])[1][1] = DataRows(input_file[1])[1][1]
  /\ DataRows(input_file[2])[1][2] = DataRows(input_file[1])[1][2]

\* C13: a poll of a task id that no upload was given answers 404, whatever
\* other tasks exist or are running.
C13_UnknownTaskIsNotFound ==
  \A t \in Tasks :
    poll_resp.task = t /\ t > issued => poll_resp.code = 404 /\ poll_resp.body = <<>>

\* an id that was never given out is polled while the thread of another
\* task is running and that task's files exist
C13_Witness ==
  \E t, u \in Tasks :
    /\ poll_resp.task = t /\ t > issued /\ poll_resp.code = 404
    /\ u <= issued /\ Running(u) /\ input_file[u].exists

\* C14: under fair scheduling every thread started on a well-formed input (a
\* header line and rows that parse) ends with its output file finalized,
\* also when the threads of other tasks run on the same table.
WellFormedInput(f) == Len(f.rows) >= 1 /\ ~HasMalformedRow(f)

C14_WellFormedTaskCompletes ==
  \A t \in Tasks :
    (pc[t] = "start" /\ WellFormedInput(input_file[t])) ~> (pc[t] = "done")

(* ---------------------------- helpers/csv_processor.py ----------------- *)
\* song_data[song][date] += plays on a defaultdict of defaultdict(int)
AddPlays(song_data, song, date, plays) ==
  LET dates == IF song \in DOMAIN song_data THEN song_data[song] ELSE [d \in {} |-> 0]
      added == [d \in DOMAIN dates \cup {date} |->
                  (IF d \in DOMAIN dates THEN dates[d] ELSE 0) + (IF d = date THEN plays ELSE 0)]
  IN [s \in DOMAIN song_data \cup {song} |-> IF s = song THEN added ELSE song_data[s]]

\* csv_processor.py:13-15: the loop over the data rows
RECURSIVE Accumulate(_, _)
Accumulate(rows, song_data) ==
  IF rows = <<>> THEN song_data
  ELSE Accumulate(Tail(rows),
                  AddPlays(song_data, Head(rows)[1], Head(rows)[2], int(Head(rows)[3])))

\* comparison of the sort keys (x[0], x[1]): the first differing element decides
TupleLess(a, b) == IF a[1] # b[1] THEN TextLess(a[1], b[1]) ELSE TextLess(a[2], b[2])

\* csv_processor.py:17-20: sorted(...) of the (song, date, plays) items
RECURSIVE sorted(_)
sorted(items) ==
  IF items = {} THEN <<>>
  ELSE LET first == CHOOSE x \in items :
                      \A y \in items \ {x} : TupleLess(<<x[1], x[2]>>, <<y[1], y[2]>>)
       IN <<first>> \o sorted(items \ {first})

\* csv_processor.py:7-26: the output file of the in-memory aggregator; its
\* integers are Python's, without a largest value.  It raises before it opens
\* the output on a file without header line and on a row it cannot parse.
process_csv(input) ==
  IF Len(input.rows) = 0 \/ HasMalformedRow(input) THEN Absent
  ELSE LET song_data == Accumulate(DataRows(input), [s \in {} |-> 0])
           sorted_data == sorted(UNION {{<<s, d, song_data[s][d]>> : d \in DOMAIN song_data[s]} :
                                          s \in DOMAIN song_data})
       IN File(<<OutputHeader>> \o
               [i \in 1..Len(sorted_data) |->
                  <<sorted_data[i][1], sorted_data[i][2], ToText(sorted_data[i][3])>>])

\* C17: for every well-formed input processed alone, the thread of
\* utils.process_csv ends with the output file that the in-memory aggregator
\* of helpers/csv_processor.py writes, row for row.
C17_StoreBackedEqualsInMemory ==
  \A t \in Tasks :
    pc[t] \in {"done", "failed"} /\ WellFormedInput(input_file[t]) =>
      output_file[t] = process_csv(input_file[t])

====
